---- MODULE Spec2Model ----
(***************************************************************************)
(* Model of sern-cli's build command (src/unnamed/part_001).               *)
(*                                                                         *)
(* Three specifications share this module:                                 *)
(*   Spec      the watch session kept by CommandOnEndPlugin: the onEnd     *)
(*             hook, the debounce timer callback, and the life of the      *)
(*             spawned subprocess;                                         *)
(*   BuildSpec the build(options) function, statement by statement, from   *)
(*             the usage check to ctx.watch() / ctx.dispose();             *)
(*   EngineSpec the life of the esbuild context that build() opens: plugin  *)
(*             setup, the artifact writes it starts, the build attempts    *)
(*             of rebuild() and of watch mode, and the watch session.      *)
(***************************************************************************)
EXTENDS Integers, Sequences, FiniteSets, TLC

VARIABLES
    \* ---- CommandOnEndPlugin(watching, watchCommand) ----
    watching,        \* parameter `watching`
    watchCommand,    \* parameter `watchCommand` (Undefined, "" or a command)
    isFirstBuild,    \* let isFirstBuild
    currentProcess,  \* let currentProcess: id of the ExecaChildProcess, or Null
    restartTimeout,  \* let restartTimeout: id of the Timeout, or Null
    timers,          \* timeouts scheduled in the event loop, not fired, not cleared
    procs,           \* every subprocess execa has started, with its status
    lockFiles,       \* the lock files in the working directory when last looked at
    cycle,           \* number of onEnd invocations so far
    result,          \* result.errors.length of the latest onEnd invocation
    hist,            \* per onEnd invocation: what the hook did
    \* ---- build(options) ----
    pc,              \* the statement build() is at
    options,         \* parameter `options`
    sernConfig,      \* const sernConfig
    fileConfig,      \* what the import of sern.build.js gave
    buildConfig,     \* let buildConfig
    env,             \* process.env.NODE_ENV
    effects,         \* the external effects of build(), in order
    outcome,         \* "running", "returned", or the error build() threw
    \* ---- the esbuild context ----
    initialOptions,  \* build.initialOptions: the define map and the drop labels
    pendingWrites    \* the writeFile calls of setup() that have not completed

sessVars  == <<isFirstBuild, currentProcess, restartTimeout, timers, procs>>
plugVars  == <<watching, watchCommand>>
histVars  == <<cycle, result, hist>>
watchVars == <<plugVars, sessVars, histVars, lockFiles>>
buildVars == <<pc, options, sernConfig, fileConfig, buildConfig, env, effects, outcome>>
engineVars == <<initialOptions, pendingWrites>>
vars      == <<watchVars, buildVars, engineVars>>

(***************************************************************************)
(* Bounds                                                                  *)
(***************************************************************************)
\* onEnd invocations (build attempts that completed) in one behaviour
MaxBuilds == 3
\* errors one build result can report
MaxErrors == 1

(***************************************************************************)
(* Values                                                                  *)
(***************************************************************************)
Undefined == "<undefined>"
Null      == 0
\* the error thrown by the command resolution of line 117
Thrown    == "<Error: default package manager start command not found>"

LockFileNames == {"package-lock.json", "yarn.lock", "pnpm-lock.yaml", "bun.lockb", "bun.lock"}
\* the commands a watch configuration can carry: absent, empty, explicit
WatchCommands == {Undefined, "", "node ."}

\* the object with no keys
EmptyMap == [k \in {} |-> ""]

\* JavaScript truthiness of an optional string
Truthy(v) == v \notin {Undefined, ""}

(***************************************************************************)
(* CommandOnEndPlugin                                                      *)
(***************************************************************************)
\* lines 110-118, mutated: yarn.lock is probed before package-lock.json
DefaultCommand_YarnFirst(files) ==
    IF "yarn.lock" \in files THEN "yarn start"
    ELSE IF "package-lock.json" \in files THEN "npm start"
    ELSE IF "pnpm-lock.yaml" \in files THEN "pnpm start"
    ELSE IF "bun.lockb" \in files THEN "bun start"
    ELSE IF "bun.lock" \in files THEN "bun start"
    ELSE Thrown
\* lines 110-118: the lock file probe, in its fixed order
DefaultCommand(files) ==
    IF "package-lock.json" \in files THEN "npm start"
    ELSE IF "yarn.lock" \in files THEN "yarn start"
    ELSE IF "pnpm-lock.yaml" \in files THEN "pnpm start"
    ELSE IF "bun.lockb" \in files THEN "bun start"
    ELSE IF "bun.lock" \in files THEN "bun start"
    ELSE Thrown

\* line 110: const cmd = watchCommand || (() => {...})()
ResolveCmd(files) ==
    IF Truthy(watchCommand) THEN watchCommand ELSE DefaultCommand(files)

\* line 94, mutated: the hook forgets to look at `watching`
HookReturnsEarly_NoWatchTest(errs) == errs # 0
\* line 94, mutated: the hook forgets to look at the error count
HookReturnsEarly_NoErrorTest(errs) == ~watching
\* line 94: if (!watching || result.errors.length !== 0) return;
HookReturnsEarly(errs) == ~watching \/ errs # 0

\* lines 104-108: currentProcess.cancel(): execa sends the kill signal and marks
\* the child as cancelled; the child ends later, and its promise rejects then
\* (line 129). Cancelling a child that has already ended does nothing.
CancelProcess(ps, h) ==
    { IF p.id = h /\ p.status = "running" THEN [p EXCEPT !.status = "cancelled"] ELSE p
        : p \in ps }

\* line 121: clearTimeout(restartTimeout); a timeout that has fired is not in
\* the event loop any more and clearing it does nothing
ClearTimeout(ts, h) == { t \in ts : t.id # h }

\* lines 95-98, mutated: the first build is treated like any other
FirstBuildBranch_Missing == FALSE
\* line 95: if (isFirstBuild === true)
FirstBuildBranch == isFirstBuild

\* line 99, mutated: the empty command is not singled out
NoCommandBranch_Missing == FALSE
\* line 99: if (watchCommand === '')
NoCommandBranch == watchCommand = ""

\* line 110: `watchCommand || (...)()` runs the probe only without an explicit
\* command, so only such a session ever looks at the working directory: these
\* are the sets of lock files it can find there
Directories ==
    IF Truthy(watchCommand) THEN {lockFiles} ELSE SUBSET LockFileNames

\* what is remembered of one hook invocation: its input, the branch it took, the
\* command it resolved, and the timeouts that were pending when it was entered
HistEntry(errs, path, cmd) ==
    [errs |-> errs, path |-> path, cmd |-> cmd, pending |-> { t.id : t \in timers }]

\* line 117, mutated: the probe returns undefined instead of throwing, and the
\* hook goes on to line 126 with it
SkipRestart_StillSchedules(errs) ==
    /\ timers' = ClearTimeout(timers, restartTimeout) \cup {[id |-> cycle', cmd |-> Undefined]}
    /\ restartTimeout' = cycle'
    /\ hist' = Append(hist, HistEntry(errs, "throw", Thrown))
\* line 117: the throw ends the hook; lines 121-133 are not reached
SkipRestart(errs) ==
    /\ UNCHANGED <<restartTimeout, timers>>
    /\ hist' = Append(hist, HistEntry(errs, "throw", Thrown))

\* lines 93-134, mutated: the callback yields to the event loop after line 108
\* (as an await before the probe would make it); lines 110-133 are left for later
OnEndHook_YieldsAfterCancel(errs) ==
    /\ cycle' = cycle + 1
    /\ result' = errs
    /\ UNCHANGED plugVars
    /\ IF HookReturnsEarly(errs)
       THEN /\ UNCHANGED <<sessVars, lockFiles>>
            /\ hist' = Append(hist, HistEntry(errs, "return", Undefined))
       ELSE IF FirstBuildBranch
       THEN /\ isFirstBuild' = FALSE
            /\ UNCHANGED <<currentProcess, restartTimeout, timers, procs, lockFiles>>
            /\ hist' = Append(hist, HistEntry(errs, "first", Undefined))
       ELSE IF NoCommandBranch
       THEN /\ UNCHANGED <<sessVars, lockFiles>>
            /\ hist' = Append(hist, HistEntry(errs, "nocommand", Undefined))
       ELSE /\ procs' = CancelProcess(procs, currentProcess)
            /\ currentProcess' = Null
            /\ UNCHANGED <<isFirstBuild, restartTimeout, timers>>
            /\ \E files \in Directories :
                 /\ lockFiles' = files
                 /\ hist' = Append(hist, HistEntry(errs,
                                IF ResolveCmd(files) = Thrown THEN "throw" ELSE "schedule",
                                ResolveCmd(files)))
\* lines 93-134: one invocation of the onEnd callback. Its body holds no await,
\* so it runs from entry to return (or throw) without yielding to the event loop.
\* `files` is what pathExistsSync finds in the working directory when line 110
\* is reached.
OnEndHook(errs) ==
    /\ cycle' = cycle + 1
    /\ result' = errs
    /\ UNCHANGED plugVars
    /\ IF HookReturnsEarly(errs)
       THEN /\ UNCHANGED <<sessVars, lockFiles>>
            /\ hist' = Append(hist, HistEntry(errs, "return", Undefined))
       ELSE IF FirstBuildBranch
       THEN /\ isFirstBuild' = FALSE
            /\ UNCHANGED <<currentProcess, restartTimeout, timers, procs, lockFiles>>
            /\ hist' = Append(hist, HistEntry(errs, "first", Undefined))
       ELSE IF NoCommandBranch
       THEN /\ UNCHANGED <<sessVars, lockFiles>>
            /\ hist' = Append(hist, HistEntry(errs, "nocommand", Undefined))
       ELSE /\ procs' = CancelProcess(procs, currentProcess)
            /\ currentProcess' = Null
            /\ UNCHANGED isFirstBuild
            /\ \E files \in Directories :
                 /\ lockFiles' = files
                 /\ IF ResolveCmd(files) = Thrown
                    THEN SkipRestart(errs)
                    ELSE /\ timers' = ClearTimeout(timers, restartTimeout)
                                        \cup {[id |-> cycle', cmd |-> ResolveCmd(files)]}
                         /\ restartTimeout' = cycle'
                         /\ hist' = Append(hist, HistEntry(errs, "schedule", ResolveCmd(files)))

\* a build attempt of the watcher completes and esbuild runs the onEnd callback
OnEnd(errs) ==
    /\ cycle < MaxBuilds
    /\ OnEndHook(errs)
    /\ UNCHANGED <<buildVars, engineVars>>

\* lines 126-133: the timeout callback. The child gets the id of the cycle whose
\* hook scheduled the timeout. `files` is the working directory as it is by
\* then; the callback does not look at it.
TimerFires ==
    \E t \in timers, files \in Directories :
        /\ lockFiles' = files
        /\ timers' = timers \ {t}
        /\ procs' = procs \cup {[id |-> t.id, cmd |-> t.cmd, status |-> "running", logged |-> FALSE]}
        /\ currentProcess' = t.id
        /\ UNCHANGED <<isFirstBuild, restartTimeout, plugVars, histVars, buildVars, engineVars>>

\* lines 129-132, mutated: the isCanceled test is lost
Reported_EveryRejection(rejected, isCanceled) == rejected
\* lines 129-132: the catch handler runs for a rejected child promise and logs
\* '[watch] command execution error' unless error.isCanceled
Reported(rejected, isCanceled) == rejected /\ ~isCanceled

\* the child ends: by itself (exit code 0: the promise resolves; otherwise it
\* rejects), or because of the kill signal of cancel() (it rejects with
\* isCanceled); lines 129-132 then run for a rejection
ProcessEnds ==
    \E p \in procs, how \in {"exited", "failed"} :
        /\ p.status \in {"running", "cancelled"}
        /\ procs' = (procs \ {p}) \cup
              {[p EXCEPT !.status = IF p.status = "cancelled" THEN "killed" ELSE how,
                         !.logged = Reported(p.status = "cancelled" \/ how = "failed",
                                             p.status = "cancelled")]}
        /\ UNCHANGED <<isFirstBuild, currentProcess, restartTimeout, timers,
                       plugVars, histVars, lockFiles, buildVars, engineVars>>

\* build() is not part of this specification: its variables keep these values
BuildIdle ==
    /\ pc = "idle"
    /\ options = [ watch |-> watching, watchCommand |-> Undefined, mode |-> Undefined,
                   format |-> Undefined, tsconfig |-> Undefined, env |-> Undefined,
                   sourceMaps |-> Undefined ]
    /\ sernConfig = [language |-> Undefined]
    /\ fileConfig = [ status |-> "unread", mode |-> Undefined, format |-> Undefined,
                      tsconfig |-> Undefined, env |-> Undefined, sourcemap |-> Undefined,
                      watch |-> [given |-> FALSE, command |-> Undefined],
                      define |-> [given |-> FALSE, entries |-> EmptyMap],
                      dropLabels |-> [given |-> FALSE, labels |-> <<>>],
                      defineVersion |-> Undefined ]
    /\ buildConfig = [ mode |-> Undefined, format |-> Undefined, tsconfig |-> Undefined,
                       env |-> Undefined, sourcemap |-> Undefined,
                       watch |-> [command |-> watchCommand],
                       define |-> [given |-> FALSE, entries |-> EmptyMap],
                       dropLabels |-> <<>>, defineVersion |-> Undefined ]
    /\ env = Undefined
    /\ effects = <<>> /\ outcome = "running"
    /\ initialOptions = [define |-> EmptyMap, dropLabels |-> <<>>]
    /\ pendingWrites = {}

\* lines 85-89: the state the plugin factory creates
Init ==
    /\ watching \in BOOLEAN
    /\ watchCommand \in WatchCommands
    /\ isFirstBuild = TRUE
    /\ currentProcess = Null
    /\ restartTimeout = Null
    /\ timers = {}
    /\ procs = {}
    /\ lockFiles = {}
    /\ cycle = 0
    /\ result = 0
    /\ hist = <<>>
    /\ BuildIdle

Next ==
    \/ \E errs \in 0..MaxErrors : OnEnd(errs)
    \/ TimerFires
    \/ ProcessEnds

Spec == Init /\ [][Next]_vars

(***************************************************************************)
(* build(options)                                                          *)
(***************************************************************************)
\* CLI flags given / config file keys present in one run
MaxCliFlags == 2
MaxFileKeys == 2

Modes      == {"development", "production", "staging"}
ValidModes == {"development", "production"}

\* the options object commander hands to build(): a flag not given is Undefined
\* (watch: not given is FALSE)
AllOptions ==
    [ watch        : BOOLEAN,
      watchCommand : {Undefined, "", "node ."},
      mode         : {Undefined} \cup Modes,
      format       : {Undefined, "cjs"},
      tsconfig     : {Undefined, "tsconfig.cli.json"},
      env          : {Undefined, ".env.cli"},
      sourceMaps   : {Undefined, "true"} ]

FlagsGiven(o) ==
    Cardinality({ k \in {"watchCommand", "mode", "format", "tsconfig", "env", "sourceMaps"}
                    : o[k] # Undefined })
        + (IF o.watch THEN 1 ELSE 0)

CliOptions == { o \in AllOptions : FlagsGiven(o) <= MaxCliFlags }

\* lines 19-63: the default export of sern.build.js, as lines 174-180 get it.
\* status: "found" (imported), "absent" (pathExistsSync is false), "failed" (the
\* import threw), "unread" (line 174 not reached yet). A key the file does not
\* have is Undefined; the watch key, an object, says whether it is there.
\* FileKeys are the keys a command line flag also feeds, EngineKeys the keys
\* that only the file can carry (they reach the engine: lines 73-80, 237). The
\* objects among the values (watch, define, dropLabels) say whether the key is
\* there.
FileKeys   == {"mode", "format", "tsconfig", "env", "sourcemap", "watch"}
EngineKeys == {"define", "dropLabels", "defineVersion"}
NoWatchKey  == [given |-> FALSE, command |-> Undefined]
NoDefineKey == [given |-> FALSE, entries |-> EmptyMap]
NoLabelsKey == [given |-> FALSE, labels |-> <<>>]
\* define maps and drop label lists a sern.build.js can carry
UserDefines ==
    { "DEBUG" :> "true", "__DEV__" :> "true",
      ("__DEV__" :> "false") @@ ("__PROD__" :> "false") }
UserDropLabels == { <<"DEBUG">>, <<"__DEV__", "TEST">> }
AllFileConfigs ==
    [ status    : {"found"},
      mode      : {Undefined} \cup Modes,
      format    : {Undefined, "esm"},
      tsconfig  : {Undefined, "tsconfig.file.json"},
      env       : {Undefined, ".env.file"},
      sourcemap : {Undefined, "false"},
      watch     : {NoWatchKey} \cup [given : {TRUE}, command : {Undefined, "", "bun dev"}],
      define    : {NoDefineKey} \cup [given : {TRUE}, entries : UserDefines],
      dropLabels : {NoLabelsKey} \cup [given : {TRUE}, labels : UserDropLabels],
      defineVersion : {Undefined, "false"} ]

Has(fc, k) ==
    IF k \in {"watch", "define", "dropLabels"} THEN fc[k].given ELSE fc[k] # Undefined

NoFile(status) ==
    [ status |-> status, mode |-> Undefined, format |-> Undefined, tsconfig |-> Undefined,
      env |-> Undefined, sourcemap |-> Undefined, watch |-> NoWatchKey,
      define |-> NoDefineKey, dropLabels |-> NoLabelsKey, defineVersion |-> Undefined ]

\* the config files build() is run with: up to MaxFileKeys of the FileKeys
FileConfigs ==
    { f \in AllFileConfigs : /\ \A k \in EngineKeys : ~Has(f, k)
                             /\ Cardinality({ k \in FileKeys : Has(f, k) }) <= MaxFileKeys }
        \cup {NoFile("absent"), NoFile("failed")}

Found(fc) == fc.status = "found"

\* the values of the variables before build() assigns them
NoSernConfig  == [language |-> Undefined]
NoBuildConfig ==
    [ mode |-> Undefined, format |-> Undefined, tsconfig |-> Undefined, env |-> Undefined,
      sourcemap |-> Undefined, watch |-> [command |-> Undefined],
      define |-> NoDefineKey, dropLabels |-> <<>>, defineVersion |-> Undefined ]

OrElse(v, d) == IF v # Undefined THEN v ELSE d

\* lines 138-143
resolveBuildConfig(path, language) ==
    IF language = "javascript" THEN OrElse(path, "jsconfig.json")
    ELSE OrElse(path, "tsconfig.json")

\* lines 159-171 (`include`, which nothing reads, is left out; the object has
\* no define key)
defaultBuildConfig(o, sc) ==
    [ defineVersion |-> "true",
      format    |-> OrElse(o.format, "esm"),
      mode      |-> OrElse(o.mode, "development"),
      dropLabels |-> <<>>,
      sourcemap |-> o.sourceMaps,
      tsconfig  |-> resolveBuildConfig(o.tsconfig, sc.language),
      env       |-> OrElse(o.env, ".env"),
      watch     |-> [command |-> o.watchCommand],
      define    |-> NoDefineKey ]

\* the value a file config has under key k
FileValue(fc, k) ==
    IF k = "watch" THEN [command |-> fc.watch.command]
    ELSE IF k = "dropLabels" THEN fc.dropLabels.labels
    ELSE fc[k]

\* line 182, mutated: the spread operands are swapped, so the file fills in
\* only the keys the first operand does not have, and it has them all
MergeConfig_Swapped(d, fc) == d
\* line 182: { ...defaultBuildConfig, ...fileConfig }: every key the file has
\* replaces the key of the first operand, `watch` as a whole object
MergeConfig(d, fc) ==
    [ k \in FileKeys \cup EngineKeys |-> IF Has(fc, k) THEN FileValue(fc, k) ELSE d[k] ]

\* lines 150-153, mutated: the test is lost
UsageError_Never(o) == FALSE
\* line 151: if (!options.watch && options.watchCommand)
UsageError(o) == ~o.watch /\ Truthy(o.watchCommand)

\* lines 190-191, mutated: NODE_ENV only fills in a mode nobody gave
OverriddenMode_OnlyDefault(bc, nodeEnv) ==
    IF Truthy(nodeEnv) /\ bc.mode = "development" THEN nodeEnv ELSE bc.mode
\* lines 190-191: if (process.env.NODE_ENV) buildConfig.mode = process.env.NODE_ENV
OverriddenMode(bc, nodeEnv) ==
    IF Truthy(nodeEnv) THEN nodeEnv ELSE bc.mode

\* line 194, mutated: any mode that is set passes
ModeAccepted_AnySet(m) == m # Undefined
\* line 194: assert(mode === 'development' || mode === 'production')
ModeAccepted(m) == m = "development" \/ m = "production"

Effect(op, arg) == [op |-> op, arg |-> arg]
Did(op)         == \E i \in 1..Len(effects) : effects[i].op = op

Throw(err) ==
    /\ outcome' = err
    /\ pc' = "done"

\* lines 150-153
CheckUsage ==
    /\ pc = "check"
    /\ IF UsageError(options)
       THEN Throw("InvalidArgumentError")
       ELSE pc' = "getConfig" /\ UNCHANGED outcome
    /\ UNCHANGED <<options, sernConfig, fileConfig, buildConfig, env, effects, watchVars, engineVars>>

\* line 155: const sernConfig = await getConfig()
GetConfig ==
    /\ pc = "getConfig"
    /\ \E lang \in {"typescript", "javascript"} : sernConfig' = [language |-> lang]
    /\ effects' = Append(effects, Effect("getConfig", Undefined))
    /\ pc' = "merge"
    /\ UNCHANGED <<options, fileConfig, buildConfig, env, outcome, watchVars, engineVars>>

\* lines 157-186: the default configuration, and the merge with sern.build.js
LoadBuildConfig ==
    /\ pc = "merge"
    /\ \E fc \in FileConfigs :
        /\ fileConfig' = fc
        /\ IF fc.status = "absent"
           THEN /\ buildConfig' = defaultBuildConfig(options, sernConfig)
                /\ pc' = "dotenv"
                /\ UNCHANGED <<effects, outcome>>
           ELSE /\ effects' = Append(effects, Effect("import", "sern.build.js"))
                /\ IF fc.status = "failed"
                   THEN Throw("ImportError") /\ UNCHANGED buildConfig
                   ELSE /\ buildConfig' = MergeConfig(defaultBuildConfig(options, sernConfig), fc)
                        /\ pc' = "dotenv"
                        /\ UNCHANGED outcome
    /\ UNCHANGED <<options, sernConfig, env, watchVars, engineVars>>

\* line 188, mutated: the file is read and nothing of it reaches process.env
\* before line 190 reads NODE_ENV
Populate_TooLate(cur, entry) == cur
\* line 188: what dotenv leaves in process.env.NODE_ENV when the file has `entry`
Populate(cur, entry) == IF cur = Undefined THEN entry ELSE cur

\* line 188: configDotenv({ path: buildConfig.env }). `entry` is the NODE_ENV
\* line of that file (Undefined: no such line, or no such file); dotenv does not
\* replace a variable the process environment already has; when it sets
\* NODE_ENV, the trace says so.
LoadDotenv ==
    /\ pc = "dotenv"
    /\ \E entry \in {Undefined} \cup Modes :
        /\ env' = Populate(env, entry)
        /\ effects' = effects \o <<Effect("configDotenv", buildConfig.env)>>
                               \o IF env = Undefined /\ entry # Undefined
                                  THEN <<Effect("populate", entry)>> ELSE <<>>
    /\ pc' = "nodeEnv"
    /\ UNCHANGED <<options, sernConfig, fileConfig, buildConfig, outcome, watchVars, engineVars>>

\* lines 190-193
ApplyNodeEnv ==
    /\ pc = "nodeEnv"
    /\ buildConfig' = [buildConfig EXCEPT !.mode = OverriddenMode(buildConfig, env)]
    /\ pc' = "assert"
    /\ UNCHANGED <<options, sernConfig, fileConfig, env, effects, outcome, watchVars, engineVars>>

\* line 194
AssertMode ==
    /\ pc = "assert"
    /\ IF ModeAccepted(buildConfig.mode)
       THEN pc' = "parseTsConfig" /\ UNCHANGED outcome
       ELSE Throw("AssertionError")
    /\ UNCHANGED <<options, sernConfig, fileConfig, buildConfig, env, effects, watchVars, engineVars>>

\* lines 195-204
ParseTsConfig ==
    /\ pc = "parseTsConfig"
    /\ effects' = Append(effects, Effect("parseTsConfig", buildConfig.tsconfig))
    /\ \E ok \in BOOLEAN :
        IF ok THEN pc' = "mkdir" /\ UNCHANGED outcome
        ELSE Throw("TsConfigError")
    /\ UNCHANGED <<options, sernConfig, fileConfig, buildConfig, env, watchVars, engineVars>>

\* lines 214-227: the .sern/generated directory, then the entry points
MakeGenDir ==
    /\ pc = "mkdir"
    /\ \E exists \in BOOLEAN :
        effects' = IF exists THEN Append(effects, Effect("glob", Undefined))
                   ELSE effects \o <<Effect("mkdir", ".sern/generated"), Effect("glob", Undefined)>>
    /\ pc' = "context"
    /\ UNCHANGED <<options, sernConfig, fileConfig, buildConfig, env, outcome, watchVars, engineVars>>

\* { ...a, ...b }: the keys of b replace those of a
Spread(a, b) ==
    [ k \in DOMAIN a \cup DOMAIN b |-> IF k \in DOMAIN b THEN b[k] ELSE a[k] ]
\* line 74: buildConfig.define ?? {}
OrEmpty(d) == IF d.given THEN d.entries ELSE EmptyMap
\* `${b}` of a boolean
Str(b) == IF b THEN "true" ELSE "false"
\* line 71: JSON.stringify of the version in package.json
PackageVersion == "\"1.0.0\""

\* lines 73-78: the keys the plugin injects
InjectedDefines(bc) ==
    ("__DEV__" :> Str(bc.mode = "development"))
        @@ ("__PROD__" :> Str(bc.mode = "production"))
        @@ ("__VERSION__" :> IF bc.defineVersion = "true" THEN PackageVersion ELSE "undefined")
\* lines 73-78, mutated: the user's map is spread last
DefineMap_UserLast(bc) == Spread(InjectedDefines(bc), OrEmpty(bc.define))
\* lines 73-78: options.define = { ...(buildConfig.define ?? {}), __DEV__, __PROD__, __VERSION__ }
DefineMap(bc) == Spread(OrEmpty(bc.define), InjectedDefines(bc))

\* line 237
DropLabels(bc) ==
    <<IF bc.mode = "production" THEN "__DEV__" ELSE "__PROD__">> \o bc.dropLabels

\* lines 79-80: the two artifact writes setup() starts
SetupWrites ==
    << Effect("writeTsConfig", buildConfig.format),
       Effect("writeAmbientFile", buildConfig.mode) >>
\* lines 68-82, mutated: setup registers an onStart callback that writes the
\* artifacts again when a build attempt starts
OnStart_Regenerates == SetupWrites
\* lines 68-82: what CommandHandlerPlugin does when a build attempt starts.
\* setup() registers no callback with the engine, so: nothing.
OnStart == <<>>

\* lines 229-238: esbuild.context() is handed the drop labels and runs the
\* setup of both plugins, once. CommandHandlerPlugin's setup (lines 68-82) sets
\* the define map and starts the two artifact writes, which it does not await;
\* CommandOnEndPlugin (lines 85-92) is created with options.watch and the
\* resolved watch command.
OpenContext ==
    /\ pc = "context"
    /\ effects' = effects \o <<Effect("context", Undefined)>> \o SetupWrites
    /\ initialOptions' = [ define     |-> DefineMap(buildConfig),
                           dropLabels |-> DropLabels(buildConfig) ]
    /\ pendingWrites' = { SetupWrites[i].op : i \in 1..Len(SetupWrites) }
    /\ watching' = options.watch
    /\ watchCommand' = buildConfig.watch.command
    /\ pc' = "rebuild"
    /\ UNCHANGED <<options, sernConfig, fileConfig, buildConfig, env, outcome,
                   sessVars, histVars, lockFiles>>

\* a writeFile call of lines 79-80 completes
WriteCompletes ==
    /\ \E w \in pendingWrites : pendingWrites' = pendingWrites \ {w}
    /\ UNCHANGED <<watchVars, buildVars, initialOptions>>

\* line 240: await ctx.rebuild(): the build attempt ends with the onEnd hook; a
\* build with errors rejects the promise
Rebuild ==
    /\ pc = "rebuild"
    /\ effects' = effects \o OnStart \o <<Effect("rebuild", Undefined)>>
    /\ pendingWrites' = pendingWrites \cup { OnStart[i].op : i \in 1..Len(OnStart) }
    /\ \E errs \in 0..MaxErrors :
        /\ OnEndHook(errs)
        /\ IF errs = 0 THEN pc' = "finish" /\ UNCHANGED outcome
           ELSE Throw("BuildFailure")
    /\ UNCHANGED <<options, sernConfig, fileConfig, buildConfig, env, initialOptions>>

\* lines 241-245
WatchOrDispose ==
    /\ pc = "finish"
    /\ effects' = Append(effects, Effect(IF options.watch THEN "watch" ELSE "dispose", Undefined))
    /\ outcome' = "returned"
    /\ pc' = "done"
    /\ UNCHANGED <<options, sernConfig, fileConfig, buildConfig, env, watchVars, engineVars>>

\* build(options) has just been called; no plugin exists yet
BuildInit ==
    /\ pc = "check"
    /\ options \in CliOptions
    /\ env \in {Undefined} \cup Modes
    /\ sernConfig = NoSernConfig /\ fileConfig = NoFile("unread")
    /\ buildConfig = NoBuildConfig
    /\ effects = <<>> /\ outcome = "running"
    /\ initialOptions = [define |-> EmptyMap, dropLabels |-> <<>>]
    /\ pendingWrites = {}
    /\ watching = FALSE /\ watchCommand = Undefined
    /\ isFirstBuild = TRUE /\ currentProcess = Null /\ restartTimeout = Null
    /\ timers = {} /\ procs = {} /\ lockFiles = {}
    /\ cycle = 0 /\ result = 0 /\ hist = <<>>

BuildNext ==
    \/ CheckUsage
    \/ GetConfig
    \/ LoadBuildConfig
    \/ LoadDotenv
    \/ ApplyNodeEnv
    \/ AssertMode
    \/ ParseTsConfig
    \/ MakeGenDir
    \/ OpenContext
    \/ Rebuild
    \/ WatchOrDispose

BuildSpec == BuildInit /\ [][BuildNext]_vars

(***************************************************************************)
(* The esbuild context                                                     *)
(***************************************************************************)
\* line 242: watch mode is on (ctx.watch() has been called): the engine makes a
\* build attempt of its own, at once and after every change of a source file,
\* and ends it with the onEnd hook
WatchBuild ==
    /\ pc = "done" /\ outcome = "returned" /\ options.watch
    /\ cycle < MaxBuilds
    /\ effects' = effects \o OnStart \o <<Effect("watchBuild", Undefined)>>
    /\ pendingWrites' = pendingWrites \cup { OnStart[i].op : i \in 1..Len(OnStart) }
    /\ \E errs \in 0..MaxErrors : OnEndHook(errs)
    /\ UNCHANGED <<pc, options, sernConfig, fileConfig, buildConfig, env, outcome,
                   initialOptions>>

\* lines 159-193 for one command line, config file and environment
Resolved(o, sc, fc, nodeEnv) ==
    LET d == defaultBuildConfig(o, sc)
        c == IF Found(fc) THEN MergeConfig(d, fc) ELSE d
    IN  [c EXCEPT !.mode = OverriddenMode(c, nodeEnv)]

\* the effects of lines 155-227 when nothing fails and .sern/generated exists
ResolutionTrace(bc, fc) ==
    <<Effect("getConfig", Undefined)>>
        \o (IF Found(fc) THEN <<Effect("import", "sern.build.js")>> ELSE <<>>)
        \o << Effect("configDotenv", bc.env), Effect("parseTsConfig", bc.tsconfig),
              Effect("glob", Undefined) >>

\* the command lines and config files the context is followed for: a watch
\* run has a command to run, the file carries up to MaxFileKeys keys: a mode
\* and the keys that reach the engine
EngineOptions ==
    { o \in AllOptions :
        /\ \A k \in {"mode", "format", "tsconfig", "env", "sourceMaps"} : o[k] = Undefined
        /\ o.watchCommand = IF o.watch THEN "node ." ELSE Undefined }
EngineFileConfigs ==
    { f \in AllFileConfigs :
        /\ \A k \in FileKeys \ {"mode"} : ~Has(f, k)
        /\ f.mode \in {Undefined} \cup ValidModes
        /\ Cardinality({ k \in {"mode"} \cup EngineKeys : Has(f, k) }) <= MaxFileKeys }
        \cup {NoFile("absent")}

\* build() is at line 229: lines 145-227 have run without an error
EngineInit ==
    /\ pc = "context"
    /\ options \in EngineOptions
    /\ sernConfig = [language |-> "typescript"]
    /\ fileConfig \in EngineFileConfigs
    /\ env = Undefined
    /\ buildConfig = Resolved(options, sernConfig, fileConfig, env)
    /\ effects = ResolutionTrace(buildConfig, fileConfig)
    /\ outcome = "running"
    /\ initialOptions = [define |-> EmptyMap, dropLabels |-> <<>>]
    /\ pendingWrites = {}
    /\ watching = FALSE /\ watchCommand = Undefined
    /\ isFirstBuild = TRUE /\ currentProcess = Null /\ restartTimeout = Null
    /\ timers = {} /\ procs = {} /\ lockFiles = {}
    /\ cycle = 0 /\ result = 0 /\ hist = <<>>

EngineNext ==
    \/ OpenContext
    \/ WriteCompletes
    \/ Rebuild
    \/ WatchOrDispose
    \/ WatchBuild
    \/ TimerFires
    \/ ProcessEnds

EngineSpec == EngineInit /\ [][EngineNext]_vars

(***************************************************************************)
(* Properties of build(options) (checked under BuildSpec)                  *)
(***************************************************************************)
\* lines 174-186 have run and left a configuration
Merged == fileConfig.status \in {"absent", "found"}
\* line 191 has not run yet
BeforeOverride == pc \in {"dotenv", "nodeEnv"}
\* lines 188-193 have run
AfterOverride == Did("configDotenv") /\ pc # "nodeEnv"
\* line 194 has run
AfterAssert == AfterOverride /\ pc # "assert"

\* per configuration key: the value the command line gave, the value the file
\* has, and the value the configuration carries
CliValueOf(k) ==
    IF k = "sourcemap" THEN options.sourceMaps
    ELSE IF k = "watch" THEN options.watchCommand
    ELSE options[k]
FileValueOf(k)   == IF k = "watch" THEN fileConfig.watch.command ELSE fileConfig[k]
ConfigValueOf(k) == IF k = "watch" THEN buildConfig.watch.command ELSE buildConfig[k]

\* C7 as stated: for format, mode, tsconfig, env, sourcemap and the watch
\* command, when the command line and the config file both give a value, the
\* configuration carries the command line's (mode: before NODE_ENV is applied).
CliFlagWinsOverFile ==
    Merged =>
        \A k \in FileKeys :
            (/\ k = "mode" => BeforeOverride
             /\ CliValueOf(k) # Undefined
             /\ FileValueOf(k) # Undefined)
                => ConfigValueOf(k) = CliValueOf(k)

\* C7 amended: when the command line gives a value, the configuration carries
\* the file's value if the file has the key (for watch: the command of the
\* file's watch object, even when that object has none), and the command
\* line's value only if the file is absent or lacks the key.
FileKeyWinsOverCliFlag ==
    Merged =>
        \A k \in FileKeys :
            (/\ k = "mode" => BeforeOverride
             /\ CliValueOf(k) # Undefined)
                => ConfigValueOf(k) =
                      IF Has(fileConfig, k) THEN FileValueOf(k) ELSE CliValueOf(k)

\* C7 witness: a build that returned although flag and file disagreed on a key
FlagAndFileDisagree ==
    /\ outcome = "returned"
    /\ \E k \in FileKeys \ {"mode"} :
          /\ CliValueOf(k) # Undefined /\ Has(fileConfig, k)
          /\ FileValueOf(k) # CliValueOf(k)

\* C8: once NODE_ENV has been applied, the mode is NODE_ENV if the process
\* environment has one, else the file's mode if the file has one, else the
\* --mode flag if given, else 'development'.
ResolvedModeFollowsPrecedence ==
    AfterOverride =>
        buildConfig.mode =
            IF env # Undefined THEN env
            ELSE IF fileConfig.mode # Undefined THEN fileConfig.mode
            ELSE IF options.mode # Undefined THEN options.mode
            ELSE "development"

\* C8 witness: NODE_ENV, the file and the flag name three different modes
ThreeSourcesOfMode ==
    /\ AfterOverride
    /\ env # Undefined /\ fileConfig.mode # Undefined /\ options.mode # Undefined
    /\ Cardinality({env, fileConfig.mode, options.mode}) = 3

WroteOrOpened ==
    Did("mkdir") \/ Did("writeTsConfig") \/ Did("writeAmbientFile") \/ Did("context")

\* C9 as stated: when the flag, the file or NODE_ENV names a mode other than
\* 'development' and 'production', build never gets to create the directory,
\* write an artifact or open the context, and does not return normally.
UnknownModeAnywhereFails ==
    (options.mode \notin ValidModes \cup {Undefined}
        \/ fileConfig.mode \notin ValidModes \cup {Undefined}
        \/ env \notin ValidModes \cup {Undefined})
      => ~WroteOrOpened /\ outcome # "returned"

\* C9 amended: when the mode that the merge and the NODE_ENV override leave is
\* not 'development' or 'production', build fails on the assertion before the
\* directory is created, an artifact written or the context opened; a mode that
\* another source overrides is not looked at.
UnknownResolvedModeFails ==
    /\ (AfterAssert /\ buildConfig.mode \notin ValidModes)
          => pc = "done" /\ outcome = "AssertionError" /\ ~WroteOrOpened
    /\ (AfterAssert /\ buildConfig.mode \in ValidModes) => outcome # "AssertionError"
    /\ ~AfterAssert => ~WroteOrOpened

\* C9 witness: the assertion failed on a mode that came from the config file
AssertionFailedOnFileMode ==
    /\ outcome = "AssertionError"
    /\ env = Undefined /\ fileConfig.mode = "staging"

\* C10: with a watch command given on the command line (a non-empty one: the
\* code treats '' as no command) and watch not enabled, build throws the usage
\* error having read no project config, loaded no config file, written nothing
\* and opened no context.
UsageErrorBeforeAnything ==
    (~options.watch /\ Truthy(options.watchCommand))
      => /\ pc = "check" \/ (pc = "done" /\ outcome = "InvalidArgumentError")
         /\ effects = <<>>
         /\ sernConfig = NoSernConfig
         /\ fileConfig = NoFile("unread")
         /\ buildConfig = NoBuildConfig

\* C10 witness: build has thrown the usage error
UsageErrorThrown ==
    pc = "done" /\ outcome = "InvalidArgumentError"

(***************************************************************************)
(* Properties of the watch session (checked under Spec)                    *)
(***************************************************************************)
\* a hook invocation happens in this step
HookStep == cycle' = cycle + 1
\* ... and it is for a successful build, with watch enabled
EligibleHookStep == HookStep /\ watching /\ result' = 0

Live(p) == p.status \in {"running", "cancelled"}

\* C1: at every instant at most one subprocess started by the timeout callback
\* is alive (started and not yet ended).
AtMostOneLiveSubprocess ==
    Cardinality({ p \in procs : Live(p) }) <= 1

\* what the code does ensure for C1: at most one subprocess is running and has
\* not been sent the kill signal of cancel()
AtMostOneUncancelledSubprocess ==
    Cardinality({ p \in procs : p.status = "running" }) <= 1

\* C2: with watch enabled, the first completion that reports zero errors only
\* sets the first-build flag: after it nothing is scheduled and nothing has been
\* spawned, whatever the configured command and whatever failed builds preceded.
FirstSuccessfulBuildOnlySetsFlag ==
    [][ (EligibleHookStep /\ isFirstBuild)
          => /\ isFirstBuild' = FALSE
             /\ UNCHANGED <<currentProcess, restartTimeout, timers, procs>>
             /\ timers' = {} /\ procs' = {}
             /\ currentProcess' = Null /\ restartTimeout' = Null ]_vars

\* C2 witness: a first successful completion that came after a failed one, with
\* an explicit command configured
FirstSuccessAfterFailure ==
    /\ watching /\ Truthy(watchCommand)
    /\ \E i \in 2..Len(hist) : hist[i].path = "first" /\ hist[i-1].errs > 0

\* C3: when a successful, non-first completion arrives while the timeout of an
\* earlier one is still pending, the earlier cycle spawns nothing and whatever
\* is spawned for the later one runs the command resolved for the later one.
TwoCompletionsOneSpawn ==
    \A j \in 1..Len(hist) :
        (hist[j].path \notin {"return", "first"} /\ hist[j].pending # {})
            => \A p \in procs :
                  /\ p.id \notin hist[j].pending
                  /\ p.id = j => p.cmd = hist[j].cmd

\* C4: a completion that reports errors leaves the session as it was: flag,
\* subprocess handle and subprocesses, timeout handle and pending timeouts.
FailedBuildLeavesSessionUnchanged ==
    [][ (HookStep /\ result' > 0) => UNCHANGED sessVars ]_vars

\* C4 witness: a failed completion arrived in watch mode while a timeout was
\* pending, and the timeout is still pending
FailedBuildDuringDebounce ==
    /\ watching /\ cycle > 0 /\ result > 0
    /\ hist[cycle].pending # {}
    /\ timers # {}

\* C5: with watch not enabled no hook invocation ever sets the flag, schedules a
\* timeout, or cancels or spawns a subprocess.
WatchDisabledHookDoesNothing ==
    ~watching =>
        /\ isFirstBuild
        /\ currentProcess = Null /\ restartTimeout = Null
        /\ timers = {} /\ procs = {}

\* C5 witness: watch disabled, a command configured, and both a clean and a
\* failed build have completed
WatchDisabledBuildsCompleted ==
    /\ ~watching /\ Truthy(watchCommand)
    /\ \E i, j \in 1..Len(hist) : hist[i].errs = 0 /\ hist[j].errs > 0 /\ i < j

\* C6: once the hook of a successful, non-first completion has returned or
\* thrown, no timeout of an earlier cycle is pending and no subprocess of an
\* earlier cycle is still active and uncancelled.
HookCancelsEarlierTimerAndProcess ==
    [][ (EligibleHookStep /\ ~isFirstBuild)
          => /\ \A t \in timers' : t.id = cycle'
             /\ \A p \in procs' : p.status # "running" ]_vars


\* C14 as stated: when the configured command is absent or the empty string,
\* no completion ever schedules a timeout or spawns a subprocess.
NoCommandNoRunStep ==
    ~Truthy(watchCommand) => timers = {} /\ procs = {}

\* C14 amended: when the configured command is the empty string, no completion
\* ever schedules a timeout or spawns a subprocess (an absent command falls
\* back to the package manager's start command).
EmptyCommandNoRunStep ==
    watchCommand = "" =>
        /\ timers = {} /\ procs = {}
        /\ currentProcess = Null /\ restartTimeout = Null

\* C14 witness: two successful non-first completions with the empty command
EmptyCommandSkippedTwice ==
    /\ watching /\ watchCommand = ""
    /\ \E i, j \in 1..Len(hist) :
          i < j /\ hist[i].path = "nocommand" /\ hist[j].path = "nocommand"

\* C15: a restart attempt whose command resolution throws schedules and spawns
\* nothing of its own, and the restart of a later completion that does resolve
\* is not lost: its timeout is pending, or has fired and spawned its command,
\* or was replaced by a still later restart.
FailedResolutionSkipsOnlyThatRestart ==
    \A j \in 1..Len(hist) :
        hist[j].path = "throw" =>
            /\ \A t \in timers : t.id # j
            /\ \A p \in procs : p.id # j
            /\ \A k \in (j+1)..Len(hist) :
                  hist[k].path = "schedule" =>
                      \/ [id |-> k, cmd |-> hist[k].cmd] \in timers
                      \/ \E p \in procs : p.id = k /\ p.cmd = hist[k].cmd
                      \/ \E m \in (k+1)..Len(hist) : hist[m].path = "schedule"

\* C15 witness: resolution threw, a later completion resolved a start command
\* and that command was spawned
RestartAfterFailedResolution ==
    \E j, k \in 1..Len(hist) :
        /\ j < k /\ hist[j].path = "throw" /\ hist[k].path = "schedule"
        /\ \E p \in procs : p.id = k /\ p.cmd = hist[k].cmd /\ p.cmd # Thrown

\* C16: a subprocess that ended because of cancel() is not reported as a command
\* execution error, one that failed by itself is, one that exited cleanly is
\* not; and the session is as the hook left it.
OnlyUncancelledFailuresReported ==
    \A p \in procs :
        /\ p.status = "killed" => ~p.logged
        /\ p.status = "failed" => p.logged
        /\ p.status \in {"running", "cancelled", "exited"} => ~p.logged

\* C16 witness: one child was cancelled and has ended unreported, a later one
\* failed by itself and was reported
CancelledAndFailedChildren ==
    \E p, q \in procs :
        /\ p.status = "killed" /\ ~p.logged
        /\ q.status = "failed" /\ q.logged /\ q.id > p.id

\* the claim's order of the lock files and their start commands
LockFileOrder ==
    << <<"package-lock.json", "npm start">>, <<"yarn.lock", "yarn start">>,
       <<"pnpm-lock.yaml", "pnpm start">>, <<"bun.lockb", "bun start">>,
       <<"bun.lock", "bun start">> >>
\* the explicit command if one is configured, else the start command of the
\* first lock file of the order that is present, else the error
ExpectedCommand(files) ==
    LET present == { i \in 1..Len(LockFileOrder) : LockFileOrder[i][1] \in files }
        first   == CHOOSE i \in present : \A j \in present : i <= j
    IN  IF Truthy(watchCommand) THEN watchCommand
        ELSE IF present = {} THEN Thrown
        ELSE LockFileOrder[first][2]

\* a child that this step starts
StartedNow(p) == p \in procs' /\ p.id \notin { q.id : q \in procs }

\* C17 as stated: the command that is spawned is the one the configuration and
\* the lock files present when the timeout fires give.
CommandResolvedWhenTimerFires ==
    [][ \A p \in procs' : StartedNow(p) => p.cmd = ExpectedCommand(lockFiles') ]_vars

\* C17 amended: the command is resolved when the hook runs, from the lock files
\* present then: it is the explicit command, else the start command of the
\* first lock file present in the order; the timeout carries that command and
\* the timeout callback spawns it, whatever lock files are present by then.
CommandResolvedWhenHookRuns ==
    [][ /\ (HookStep /\ hist'[cycle'].path \in {"schedule", "throw"})
            => /\ hist'[cycle'].cmd = ExpectedCommand(lockFiles')
               /\ hist'[cycle'].path = "schedule"
                    => [id |-> cycle', cmd |-> ExpectedCommand(lockFiles')] \in timers'
        /\ \A p \in procs' :
              StartedNow(p) => /\ p.cmd = hist[p.id].cmd
                               /\ [id |-> p.id, cmd |-> p.cmd] \in timers ]_vars

\* C17 witness: 'yarn start' was spawned from a yarn.lock that stood behind no
\* package-lock.json when the hook ran, and package-lock.json is there when
\* the timeout fires
SpawnedCommandOfHookTime ==
    \E p \in procs :
        /\ p.id = cycle /\ currentProcess = p.id /\ p.status = "running"
        /\ p.cmd = "yarn start"
        /\ lockFiles = {"package-lock.json", "yarn.lock", "bun.lock"}

\* what one whole invocation of the hook does to the session state, by the
\* branch it took
WholeInvocation(e) ==
    IF e.path \in {"return", "nocommand"} THEN UNCHANGED sessVars
    ELSE IF e.path = "first"
    THEN /\ isFirstBuild /\ ~isFirstBuild'
         /\ UNCHANGED <<currentProcess, restartTimeout, timers, procs>>
    ELSE /\ UNCHANGED isFirstBuild
         /\ currentProcess' = Null
         /\ procs' = { IF p.id = currentProcess /\ p.status = "running"
                         THEN [p EXCEPT !.status = "cancelled"] ELSE p : p \in procs }
         /\ IF e.path = "throw"
            THEN UNCHANGED <<restartTimeout, timers>>
            ELSE /\ restartTimeout' = cycle'
                 /\ timers' = { t \in timers : t.id # restartTimeout }
                                \cup {[id |-> cycle', cmd |-> e.cmd]}

\* C18: hook invocations never interleave with each other or with a timeout or
\* subprocess event: a step in which the hook runs carries the whole invocation
\* (flag, handle, timeout read and written together), and in any other step
\* (timeout firing, subprocess ending) no invocation is in progress: the flag
\* and the timeout handle stay, no child is cancelled and no timeout is
\* cleared or set.
HookInvocationsAtomic ==
    [][ /\ HookStep => WholeInvocation(hist'[cycle'])
        /\ ~HookStep
             => /\ UNCHANGED <<isFirstBuild, restartTimeout>>
                /\ \A p \in procs' : p.status = "cancelled" => p \in procs
                /\ timers' \subseteq timers
                /\ \A t \in timers \ timers' : \E p \in procs' : StartedNow(p) /\ p.id = t.id
      ]_vars

\* C18 witness: one invocation has cancelled the running child of the cycle
\* before and set the timeout of its own cycle
HookReplacedHandleAndTimer ==
    /\ currentProcess = Null /\ restartTimeout = cycle
    /\ \E t \in timers : t.id = cycle
    /\ \E p \in procs : p.id = cycle - 1 /\ p.status = "cancelled"

\* how many times build() has done op, and where in its trace
Count(op)       == Cardinality({ i \in 1..Len(effects) : effects[i].op = op })
Before(op1, op2) ==
    \A i, j \in 1..Len(effects) : (effects[i].op = op1 /\ effects[j].op = op2) => i < j

\* C13: once the context is opened, build() itself does exactly one rebuild; a
\* one-shot run that opened a context has disposed it by the time build() has
\* ended, whether the build succeeded or failed, and never watches; a watch run
\* starts watching only after the rebuild and never disposes.
OneRebuildThenWatchOrDispose ==
    (pc = "done" /\ Did("context"))
        => /\ Count("rebuild") = 1
           /\ Before("rebuild", "watch") /\ Before("rebuild", "dispose")
           /\ IF options.watch
              THEN ~Did("dispose")
              ELSE Did("dispose") /\ ~Did("watch")

\* the env path the merge leaves: the file's, else the flag's, else '.env'
MergedEnvPath ==
    IF fileConfig.env # Undefined THEN fileConfig.env ELSE OrElse(options.env, ".env")
\* the NODE_ENV that the environment file has put into process.env
PopulatedBy(v) == \E i \in 1..Len(effects) : effects[i] = Effect("populate", v)

\* C20: the environment file named by the merged env path is loaded before
\* NODE_ENV is read for the override, so a NODE_ENV that only the file sets
\* becomes the resolved mode; and the mode is validated only after the
\* override: the assertion judges the overridden mode.
DotenvLoadedBeforeOverride ==
    /\ pc = "nodeEnv" => Count("configDotenv") = 1
    /\ Did("configDotenv")
          => /\ \E i \in 1..Len(effects) : effects[i] = Effect("configDotenv", MergedEnvPath)
             /\ \A v \in Modes : PopulatedBy(v) => env = v
    /\ AfterOverride => \A v \in Modes : PopulatedBy(v) => buildConfig.mode = v
    /\ pc = "assert" => AfterOverride
    /\ AfterAssert => (outcome = "AssertionError" <=> ~ModeAccepted(buildConfig.mode))

\* C20 witness: the file named by sern.build.js's env key set NODE_ENV to a mode
\* that the merged configuration did not have, and build() went on with it
ModeFromEnvFile ==
    /\ AfterAssert /\ outcome # "AssertionError"
    /\ fileConfig.env # Undefined /\ fileConfig.mode = "development"
    /\ PopulatedBy("production") /\ buildConfig.mode = "production"

(***************************************************************************)
(* Properties of the esbuild context (checked under EngineSpec)            *)
(***************************************************************************)
\* a build attempt (of rebuild() or of watch mode) is made in this step
BuildAttempt == Count("rebuild")' + Count("watchBuild")' > Count("rebuild") + Count("watchBuild")

WritesCompleteBeforeCompile ==
    [][BuildAttempt => pendingWrites = {}]_vars

\* C19: the drop labels handed to the engine hold the label of the inactive
\* mode and every label the user declared, and of __DEV__ and __PROD__ the
\* define map sets exactly the active mode's to 'true', whatever the user's
\* define map says of them.
ModeFlagsAndLabelsReachEngine ==
    Did("context") =>
        LET production == buildConfig.mode = "production"
            active     == IF production THEN "__PROD__" ELSE "__DEV__"
            inactive   == IF production THEN "__DEV__" ELSE "__PROD__"
            dropped    == { initialOptions.dropLabels[i] : i \in 1..Len(initialOptions.dropLabels) }
            declared   == { fileConfig.dropLabels.labels[i] : i \in 1..Len(fileConfig.dropLabels.labels) }
        IN  /\ buildConfig.mode \in ValidModes
            /\ inactive \in dropped
            /\ declared \subseteq dropped
            /\ { k \in {"__DEV__", "__PROD__"} : initialOptions.define[k] = "true" } = {active}
            /\ initialOptions.define[inactive] = "false"

\* C19 witness: the user's define map says 'false' of both modes and the user
\* declared drop labels
UserDefinesModeFlags ==
    /\ Did("context")
    /\ fileConfig.define.given /\ fileConfig.dropLabels.given
    /\ fileConfig.define.entries = ("__DEV__" :> "false") @@ ("__PROD__" :> "false")
    /\ buildConfig.mode = "development"
====
